---- MODULE Spec2Model ----
(***************************************************************************)
(* State-machine model of the YouTube Q&A front end.                       *)
(*                                                                         *)
(* The repository holds two parallel designs of the same client:           *)
(*   - the routed pages  pages/Index.tsx (landing / ingest) and            *)
(*     pages/Chat.tsx (conversation), which persist the thread id and the  *)
(*     message history in localStorage;                                    *)
(*   - the self-contained components components/ChatWindow.tsx (ChatWindow *)
(*     and VideoInput), which keep everything in component state.          *)
(* The variable design records which of them is mounted; the variables of  *)
(* the designs that are not mounted stay at their initial values.          *)
(*                                                                         *)
(* Strings that the code inspects character by character (trim, the        *)
(* YouTube regular expression, Date.now().toString()) are sequences of     *)
(* one-character strings.  An optional value (null / undefined / absent    *)
(* key) is the empty set None, a present value x is Some(x) = {x}.         *)
(***************************************************************************)
EXTENDS Integers, Sequences, FiniteSets

\* ------------------------------------------------------------------ bounds
MaxClock == 1    \* the clock runs from 0 to MaxClock
MaxMsgs == 4     \* Chat starts no exchange that could make a longer list
MaxCwMsgs == 5   \* ChatWindow issues no call that could make a longer list
MaxCalls == 2    \* calls a ChatWindow may have in flight
MaxLate == 1     \* calls that may outlive the Chat that made them
MaxSeconds == 7325  \* every timestamp from 0 to MaxSeconds is rendered

\* ------------------------------------------------------------ option values
None == {}
Some(x) == {x}
The(o) == CHOOSE x \in o : TRUE

\* JavaScript truthiness of string | null: null, undefined and "" are falsy.
Truthy(o) == o # None /\ The(o) # ""

\* ------------------------------------------------------------------ strings
IsSpace(c) == c = " "

RECURSIVE TrimStart(_)
TrimStart(s) ==
  IF s = <<>> THEN <<>>
  ELSE IF IsSpace(Head(s)) THEN TrimStart(Tail(s)) ELSE s

RECURSIVE TrimEnd(_)
TrimEnd(s) ==
  IF s = <<>> THEN <<>>
  ELSE IF IsSpace(s[Len(s)]) THEN TrimEnd(SubSeq(s, 1, Len(s) - 1)) ELSE s

\* String.prototype.trim
Trim(s) == TrimEnd(TrimStart(s))

Digit(d) == <<"0", "1", "2", "3", "4", "5", "6", "7", "8", "9">>[d + 1]

\* Number.prototype.toString for a non-negative integer: its decimal digits.
RECURSIVE ToString(_)
ToString(n) ==
  IF n < 10 THEN <<Digit(n)>> ELSE ToString(n \div 10) \o <<Digit(n % 10)>>

StartsWith(s, lit) == Len(s) >= Len(lit) /\ SubSeq(s, 1, Len(lit)) = lit
Drop(s, n) == SubSeq(s, n + 1, Len(s))

\* String.prototype.padStart(2, "0")
padStart2(s) == IF Len(s) < 2 THEN <<"0">> \o s ELSE s

\* ------------------------------------------------------------- formatTimestamp
\* Mutant of formatTimestamp: the minutes are padded whatever the hours are.
formatTimestampPaddedMinutes(seconds) ==
  LET h == seconds \div 3600
      m == (seconds % 3600) \div 60
      s == seconds % 60
  IN IF h > 0
       THEN ToString(h) \o <<":">> \o padStart2(ToString(m)) \o <<":">> \o padStart2(ToString(s))
       ELSE padStart2(ToString(m)) \o <<":">> \o padStart2(ToString(s))

\* lib/api.ts 76-84 (and its copy, part_000 55-64), for a whole number of
\* seconds: Math.floor of an integer quotient is \div, and of an integer
\* remainder the remainder itself.
formatTimestamp(seconds) ==
  LET h == seconds \div 3600
      m == (seconds % 3600) \div 60
      s == seconds % 60
  IN IF h > 0
       THEN ToString(h) \o <<":">> \o padStart2(ToString(m)) \o <<":">> \o padStart2(ToString(s))
       ELSE ToString(m) \o <<":">> \o padStart2(ToString(s))

\* ------------------------------------------------- the YouTube URL pattern
Lower == {"a", "b", "c", "d", "e", "f", "g", "h", "i", "j", "k", "l", "m",
          "n", "o", "p", "q", "r", "s", "t", "u", "v", "w", "x", "y", "z"}
Upper == {"A", "B", "C", "D", "E", "F", "G", "H", "I", "J", "K", "L", "M",
          "N", "O", "P", "Q", "R", "S", "T", "U", "V", "W", "X", "Y", "Z"}
Digits == {"0", "1", "2", "3", "4", "5", "6", "7", "8", "9"}
\* The character class [\w-]
WordOrDash == Lower \cup Upper \cup Digits \cup {"_", "-"}

LitHttp == <<"h", "t", "t", "p", ":", "/", "/">>
LitHttps == <<"h", "t", "t", "p", "s", ":", "/", "/">>
LitWww == <<"w", "w", "w", ".">>
LitYoutube == <<"y", "o", "u", "t", "u", "b", "e", ".", "c", "o", "m", "/">>
LitWatch == <<"w", "a", "t", "c", "h", "?", "v", "=">>
LitEmbed == <<"e", "m", "b", "e", "d", "/">>
LitYoutuBe == <<"y", "o", "u", "t", "u", ".", "b", "e", "/">>

\* (lit)? at the head of s: the rest of s once an optional literal is taken.
\* No literal of the pattern is a prefix of what may follow it, so taking the
\* literal whenever it is there is what the backtracking matcher finds.
SkipOpt(s, lit) == IF StartsWith(s, lit) THEN Drop(s, Len(lit)) ELSE s

\* /^(https?:\/\/)?(www\.)?(youtube\.com\/(watch\?v=|embed\/)|youtu\.be\/)[\w-]+/
\* The pattern is anchored at the start only: whatever follows the first
\* character of the video id is not looked at.
isValidYouTubeUrl(u) ==
  LET afterScheme == IF StartsWith(u, LitHttps) THEN Drop(u, Len(LitHttps))
                     ELSE SkipOpt(u, LitHttp)
      afterWww == SkipOpt(afterScheme, LitWww)
      idPart ==
        IF StartsWith(afterWww, LitYoutube \o LitWatch)
          THEN Some(Drop(afterWww, Len(LitYoutube) + Len(LitWatch)))
        ELSE IF StartsWith(afterWww, LitYoutube \o LitEmbed)
          THEN Some(Drop(afterWww, Len(LitYoutube) + Len(LitEmbed)))
        ELSE IF StartsWith(afterWww, LitYoutuBe)
          THEN Some(Drop(afterWww, Len(LitYoutuBe)))
        ELSE None
  IN idPart # None /\ The(idPart) # <<>> /\ Head(The(idPart)) \in WordOrDash

\* ------------------------------------------------------------ input domains
\* What the user may type into the chat input.
ChatInputs == { <<>>, <<" ">>, <<" ", "a", " ">> }

\* What the user may type into a URL input.
UrlEmpty == <<>>
UrlBlank == <<" ", " ">>
UrlShort == LitYoutuBe \o <<"x", "1">>
UrlWatch == LitHttps \o LitWww \o LitYoutube \o LitWatch \o <<"a", "-", "b">>
UrlEmbedTail == LitHttp \o LitYoutube \o LitEmbed \o <<"i", "d", " ", "#">>
UrlNoId == LitHttps \o LitYoutube \o LitWatch
UrlOtherHost == LitHttps \o <<"v", "i", "m", "e", "o", ".", "c", "o", "m", "/", "1">>
UrlLeadingSpace == <<" ">> \o UrlShort
UrlInputs == { UrlEmpty, UrlBlank, UrlShort, UrlWatch, UrlEmbedTail, UrlNoId,
               UrlOtherHost, UrlLeadingSpace }
\* What the user may type into the URL input of ChatWindow and VideoInput,
\* which do not look at it.
PlainUrlInputs == { UrlEmpty, UrlShort, UrlOtherHost }

\* The timestamps a source may carry: every one up to MaxSeconds, and those
\* around the values at which the hours take one more digit.
TimestampInputs ==
  0..MaxSeconds \cup {35999, 36000, 86399, 86400, 359999, 360000, 362439}

\* What the backend may answer.
ThreadIds == {"t1", "t2"}
\* Texts are sequences of characters; a fixed text is written as one piece.
Answers == { <<"a", "n", "s">> }
Src == [snippet |-> "s", timestamp |-> 125, video_url |-> "v"]
\* ChatResponse.sources is optional: absent, or a list of sources.
SourceOptions == { None, Some(<<Src>>) }

\* --------------------------------------------------------------------- JSON
\* A stored string is either well-formed JSON (json holds the value it
\* denotes) or text that JSON.parse rejects.
Corrupt == [wellFormed |-> FALSE, json |-> <<>>]

\* Mutant of StringifyMessage: an undefined sources is written as an empty
\* list instead of being left out.
StringifyMessageEmptySources(m) ==
  [id |-> m.id, message |-> m.message, isUser |-> m.isUser,
   sources |-> IF m.sources = None THEN <<>> ELSE The(m.sources)]

\* JSON.stringify of one ChatHistory object: a key whose value is undefined
\* is left out of the text.
StringifyMessage(m) ==
  IF m.sources = None
    THEN [id |-> m.id, message |-> m.message, isUser |-> m.isUser]
    ELSE [id |-> m.id, message |-> m.message, isUser |-> m.isUser,
          sources |-> The(m.sources)]

\* JSON.stringify(messages)
Stringify(msgs) ==
  [wellFormed |-> TRUE,
   json |-> [i \in 1..Len(msgs) |-> StringifyMessage(msgs[i])]]

\* One parsed object read as a ChatHistory: a missing key reads as undefined.
ParseMessage(j) ==
  [id |-> j.id, message |-> j.message, isUser |-> j.isUser,
   sources |-> IF "sources" \in DOMAIN j THEN Some(j.sources) ELSE None]

\* JSON.parse(text): ParseThrows(text) when it raises, Parse(text) otherwise.
ParseThrows(text) == ~text.wellFormed
Parse(text) == [i \in 1..Len(text.json) |-> ParseMessage(text.json[i])]

\* ---------------------------------------------------------------- the state
VARIABLES
  design,          \* which design is mounted: "pages", "ChatWindow",
                   \* "VideoInput", or a "SourceCard" on its own
  now,             \* the value Date.now() returns
  \* --- browser, pages design
  screen,          \* the route shown: "Index" ('/') or "Chat" ('/chat')
  locState,        \* location.state.thread_id, None when there is none
  lsThreadId,      \* localStorage item youtube_thread_id, None when absent
  lsHistory,       \* localStorage item youtube_chat_history, None when absent
  histThread,      \* history variable: for each message of the stored history,
                   \* the thread id it was exchanged under
  toast,           \* title of the last toast shown, "none" when there was none
  \* --- pages/Chat.tsx
  phase,           \* "none": not mounted, "rendered": first render committed,
                   \* "ready": the mount effects have run
  messages, newMessage, isLoading, threadId,
  msgThread,       \* history variable: for each element of messages, the
                   \* thread id it was exchanged under
  chatCalls,       \* sendChatMessage calls awaited by the mounted Chat
  lateCalls,       \* sendChatMessage calls whose Chat has been unmounted
  \* --- pages/Index.tsx
  url, indexIsLoading,
  ingestCalls,     \* ingestVideo calls awaited by the mounted Index
  \* --- components/ChatWindow.tsx, ChatWindow
  cwVideoUrl, cwThreadId, cwMessages, cwSources, cwLoading,
  cwInput,         \* value of the (uncontrolled) message input element
  cwCalls,         \* ingestVideo and sendChatMessage calls in flight
  alertMsg,        \* text of the last alert(), "none" when there was none
  \* --- components/ChatWindow.tsx, VideoInput
  viUrl, viLoading, viError,
  viCalls,         \* ingestVideo calls in flight
  viIngested,      \* what onIngested was last called with, None if never
  \* --- components/ChatWindow.tsx, SourceCard
  scTimestamp,     \* source.timestamp of the card that is rendered, None if none
  scLabel          \* the text of the card's timestamp, None if none

browserVars == <<screen, locState, lsThreadId, lsHistory, histThread, toast>>
chatVars == <<phase, messages, msgThread, newMessage, isLoading, threadId, chatCalls,
              lateCalls>>
indexVars == <<url, indexIsLoading, ingestCalls>>
pagesVars == <<browserVars, chatVars, indexVars>>
cwVars == <<cwVideoUrl, cwThreadId, cwMessages, cwSources, cwLoading, cwInput,
            cwCalls, alertMsg>>
viVars == <<viUrl, viLoading, viError, viCalls, viIngested>>
scVars == <<scTimestamp, scLabel>>
vars == <<design, now, pagesVars, cwVars, viVars, scVars>>

Designs == {"pages", "ChatWindow", "VideoInput", "SourceCard"}

\* useState initial values of Chat (Chat.tsx 23-26)
ChatInitial ==
  /\ messages = <<>>
  /\ msgThread = <<>>
  /\ newMessage = <<>>
  /\ isLoading = FALSE
  /\ threadId = None

\* useState initial values of Index (Index.tsx 12-13)
IndexInitial ==
  /\ url = <<>>
  /\ indexIsLoading = FALSE

\* useState initial values of ChatWindow (ChatWindow.tsx 7-13)
ChatWindowInitial ==
  /\ cwVideoUrl = <<>>
  /\ cwThreadId = None
  /\ cwMessages = <<>>
  /\ cwSources = <<>>
  /\ cwLoading = FALSE
  /\ cwInput = <<>>

\* useState initial values of VideoInput (ChatWindow.tsx 192-194)
VideoInputInitial ==
  /\ viUrl = <<>>
  /\ viLoading = FALSE
  /\ viError = None

\* The first visit: one of the designs is mounted, the pages design at '/'.
\* localStorage is empty, or holds a history item that is not JSON (the item
\* is plain browser storage that anything on the origin can write), with or
\* without the thread id of the session it was left by.
Init ==
  /\ design \in Designs
  /\ now = 0
  /\ screen = "Index"
  /\ locState = None
  /\ lsHistory \in (IF design = "pages" THEN {None, Some(Corrupt)} ELSE {None})
  /\ lsThreadId \in (IF lsHistory = None THEN {None} ELSE {None, Some("t1")})
  /\ histThread = <<>>
  /\ toast = "none"
  /\ phase = "none"
  /\ ChatInitial
  /\ chatCalls = {}
  /\ lateCalls = {}
  /\ IndexInitial
  /\ ingestCalls = {}
  /\ ChatWindowInitial
  /\ cwCalls = <<>>
  /\ alertMsg = "none"
  /\ VideoInputInitial
  /\ viCalls = {}
  /\ viIngested = None
  /\ scTimestamp = None
  /\ scLabel = None

\* The clock advances.  Chat.tsx is the only reader of Date.now(), so time
\* that passes elsewhere is time that passes once Chat is mounted.
Tick ==
  /\ design = "pages"
  /\ phase = "ready"
  /\ now < MaxClock
  /\ now' = now + 1
  /\ UNCHANGED <<design, pagesVars, cwVars, viVars, scVars>>

\* ------------------------------------------------------------ pages design
\* Chat.tsx 56-61: the effect that follows every change of messages.
SaveHistory(msgs, stored) ==
  IF Len(msgs) > 0 THEN Some(Stringify(msgs)) ELSE stored

\* History variable of SaveHistory: the threads of what is stored.
SavedThreads(msgs, threads, stored) ==
  IF Len(msgs) > 0 THEN threads ELSE stored

\* History variable of the rollback filter of Chat.tsx 110: the threads of
\* the messages that the filter keeps.
RECURSIVE KeptThreads(_, _, _)
KeptThreads(msgs, threads, id) ==
  IF msgs = <<>> THEN <<>>
  ELSE IF Head(msgs).id # id
    THEN <<Head(threads)>> \o KeptThreads(Tail(msgs), Tail(threads), id)
    ELSE KeptThreads(Tail(msgs), Tail(threads), id)

\* Chat.tsx 45-53: the message list after the stored history has been read
\* on entry; current is the list as it was (the useState initial value).
loadHistory(stored, current) ==
  IF stored # None /\ ~ParseThrows(The(stored)) THEN Parse(The(stored)) ELSE current

\* A component that is unmounted: its state is gone (kept at the initial
\* values until the next mount).
ChatReset ==
  /\ messages' = <<>>
  /\ msgThread' = <<>>
  /\ newMessage' = <<>>
  /\ isLoading' = FALSE
  /\ threadId' = None

IndexReset ==
  /\ url' = <<>>
  /\ indexIsLoading' = FALSE

\* The browser loads route r afresh (a reload, or the address typed in): the
\* page's script starts over, so component state and pending calls are gone,
\* and localStorage is as it was.  A reload of the route that is shown keeps
\* the history entry's state; a typed address has none.
PageLoad(r, reload) ==
  /\ design = "pages"
  /\ screen' = r
  /\ locState' = IF reload /\ r = screen /\ r = "Chat" THEN locState ELSE None
  /\ toast' = "none"
  /\ phase' = IF r = "Chat" THEN "rendered" ELSE "none"
  /\ ChatReset
  /\ IndexReset
  /\ chatCalls' = {}
  /\ lateCalls' = {}
  /\ ingestCalls' = {}
  /\ UNCHANGED <<design, now, lsThreadId, lsHistory, histThread, cwVars, viVars, scVars>>

\* Mutant of resolveThread: the stored id is looked at first.
resolveThreadStoredFirst(supplied, stored) ==
  IF Truthy(stored) THEN stored
  ELSE IF Truthy(supplied) THEN supplied
  ELSE None

\* Chat.tsx 34-43: the thread the chat screen runs on, None when there is
\* none (the branch that navigates back).
resolveThread(supplied, stored) ==
  IF Truthy(supplied) THEN supplied
  ELSE IF Truthy(stored) THEN stored
  ELSE None

\* Mutant of ChatMountEffect: the thread id handed over by the navigation is
\* used but not stored.
ChatMountEffectNotStoring ==
  /\ design = "pages"
  /\ screen = "Chat"
  /\ phase = "rendered"
  /\ IF resolveThread(locState, lsThreadId) # None
       THEN /\ threadId' = resolveThread(locState, lsThreadId)
            /\ messages' = loadHistory(lsHistory, messages)
            /\ msgThread' = IF messages' = messages THEN msgThread ELSE histThread
            /\ lsHistory' = SaveHistory(messages', lsHistory)
            /\ histThread' = SavedThreads(messages', msgThread', histThread)
            /\ phase' = "ready"
            /\ UNCHANGED <<screen, locState, lsThreadId, newMessage, isLoading>>
       ELSE /\ screen' = "Index"
            /\ locState' = None
            /\ phase' = "none"
            /\ ChatReset
            /\ UNCHANGED <<lsThreadId, lsHistory, histThread>>
  /\ UNCHANGED <<design, now, toast, chatCalls, lateCalls, indexVars, cwVars, viVars,
                 scVars>>

\* Mutant of ChatMountEffect: a stored history that JSON.parse rejects is
\* taken as there being no session, and the effect navigates back.
ChatMountEffectRejectingCorrupt ==
  /\ design = "pages"
  /\ screen = "Chat"
  /\ phase = "rendered"
  /\ IF /\ resolveThread(locState, lsThreadId) # None
        /\ ~(lsHistory # None /\ ParseThrows(The(lsHistory)))
       THEN /\ threadId' = resolveThread(locState, lsThreadId)
            /\ lsThreadId' = IF Truthy(locState) THEN locState ELSE lsThreadId
            /\ messages' = loadHistory(lsHistory, messages)
            /\ msgThread' = IF messages' = messages THEN msgThread ELSE histThread
            /\ lsHistory' = SaveHistory(messages', lsHistory)
            /\ histThread' = SavedThreads(messages', msgThread', histThread)
            /\ phase' = "ready"
            /\ UNCHANGED <<screen, locState, newMessage, isLoading>>
       ELSE /\ screen' = "Index"
            /\ locState' = None
            /\ phase' = "none"
            /\ ChatReset
            /\ UNCHANGED <<lsThreadId, lsHistory, histThread>>
  /\ UNCHANGED <<design, now, toast, chatCalls, lateCalls, indexVars, cwVars, viVars,
                 scVars>>

\* Chat.tsx 29-54, with the save effect 56-61 that the setMessages of line 49
\* triggers.  It runs once the first render (122-216, which shows the chat
\* view whatever threadId is) has been committed.
ChatMountEffect ==
  /\ design = "pages"
  /\ screen = "Chat"
  /\ phase = "rendered"
  /\ IF resolveThread(locState, lsThreadId) # None
       THEN /\ threadId' = resolveThread(locState, lsThreadId)
            /\ lsThreadId' = IF Truthy(locState) THEN locState ELSE lsThreadId
            /\ messages' = loadHistory(lsHistory, messages)
            /\ msgThread' = IF messages' = messages THEN msgThread ELSE histThread
            /\ lsHistory' = SaveHistory(messages', lsHistory)
            /\ histThread' = SavedThreads(messages', msgThread', histThread)
            /\ phase' = "ready"
            /\ UNCHANGED <<screen, locState, newMessage, isLoading>>
       ELSE \* navigate('/'); return
            /\ screen' = "Index"
            /\ locState' = None
            /\ phase' = "none"
            /\ ChatReset
            /\ UNCHANGED <<lsThreadId, lsHistory, histThread>>
  /\ UNCHANGED <<design, now, toast, chatCalls, lateCalls, indexVars, cwVars, viVars, scVars>>

\* Chat.tsx 196: onChange of the input, which is disabled while isLoading.
ChatType(text) ==
  /\ design = "pages"
  /\ screen = "Chat"
  /\ phase = "ready"
  /\ ~isLoading
  /\ newMessage' = text
  /\ UNCHANGED <<design, now, browserVars, phase, messages, msgThread, isLoading, threadId,
                 chatCalls, lateCalls, indexVars, cwVars, viVars, scVars>>

\* Mutant of isBlank: the text is tested as it is, not trimmed.
isBlankUntrimmed(text) == text = <<>>

\* Chat.tsx 71, Index.tsx 23 and ChatWindow.tsx 88, 100: !text.trim()
isBlank(text) == Trim(text) = <<>>

\* Chat.tsx 68-90: handleSendMessage up to the await, then the re-render and
\* the save effect 56-61.
handleSendMessage ==
  /\ design = "pages"
  /\ screen = "Chat"
  /\ phase = "ready"
  /\ Len(messages) + 2 <= MaxMsgs
  /\ IF isBlank(newMessage) \/ ~Truthy(threadId) \/ isLoading
       THEN UNCHANGED <<newMessage, messages, msgThread, isLoading, chatCalls, lsHistory, histThread>>
       ELSE LET userMessage == Trim(newMessage)
                userMessageObj == [id |-> ToString(now), message |-> userMessage,
                                   isUser |-> TRUE, sources |-> None]
            IN /\ newMessage' = <<>>
               /\ messages' = Append(messages, userMessageObj)
               /\ msgThread' = Append(msgThread, The(threadId))
               /\ isLoading' = TRUE
               /\ chatCalls' = chatCalls \cup
                    {[thread_id |-> The(threadId), message |-> userMessage,
                      userMessageId |-> userMessageObj.id]}
               /\ lsHistory' = SaveHistory(messages', lsHistory)
               /\ histThread' = SavedThreads(messages', msgThread', histThread)
  /\ UNCHANGED <<design, now, screen, locState, lsThreadId, toast, phase, threadId,
                 lateCalls, indexVars, cwVars, viVars, scVars>>

\* Chat.tsx 87-100, 111-113: the call resolves; then the save effect 56-61.
ChatResolve(call, response) ==
  /\ design = "pages"
  /\ call \in chatCalls
  /\ LET assistantMessageObj == [id |-> ToString(now + 1), message |-> response.message,
                                 isUser |-> FALSE, sources |-> response.sources]
     IN messages' = Append(messages, assistantMessageObj)
  /\ msgThread' = Append(msgThread, call.thread_id)
  /\ isLoading' = FALSE
  /\ chatCalls' = chatCalls \ {call}
  /\ lsHistory' = SaveHistory(messages', lsHistory)
  /\ histThread' = SavedThreads(messages', msgThread', histThread)
  /\ UNCHANGED <<design, now, screen, locState, lsThreadId, toast, phase, newMessage,
                 threadId, lateCalls, indexVars, cwVars, viVars, scVars>>

\* Mutant of ChatReject: the catch branch without the finally block, so
\* isLoading is not set back.
ChatRejectStillLoading(call) ==
  /\ design = "pages"
  /\ call \in chatCalls
  /\ toast' = "Error"
  /\ messages' = SelectSeq(messages, LAMBDA msg : msg.id # call.userMessageId)
  /\ msgThread' = KeptThreads(messages, msgThread, call.userMessageId)
  /\ chatCalls' = chatCalls \ {call}
  /\ lsHistory' = SaveHistory(messages', lsHistory)
  /\ histThread' = SavedThreads(messages', msgThread', histThread)
  /\ UNCHANGED <<design, now, screen, locState, lsThreadId, phase, newMessage,
                 isLoading, threadId, lateCalls, indexVars, cwVars, viVars, scVars>>

\* Chat.tsx 101-113: the call rejects; then the save effect 56-61.
ChatReject(call) ==
  /\ design = "pages"
  /\ call \in chatCalls
  /\ toast' = "Error"
  /\ messages' = SelectSeq(messages, LAMBDA msg : msg.id # call.userMessageId)
  /\ msgThread' = KeptThreads(messages, msgThread, call.userMessageId)
  /\ isLoading' = FALSE
  /\ chatCalls' = chatCalls \ {call}
  /\ lsHistory' = SaveHistory(messages', lsHistory)
  /\ histThread' = SavedThreads(messages', msgThread', histThread)
  /\ UNCHANGED <<design, now, screen, locState, lsThreadId, phase, newMessage,
                 threadId, lateCalls, indexVars, cwVars, viVars, scVars>>

\* Mutant of handleNewChat: the thread id item is left in the store.
handleNewChatKeepingThread ==
  /\ design = "pages"
  /\ screen = "Chat"
  /\ phase = "ready"
  /\ Cardinality(lateCalls \cup chatCalls) <= MaxLate
  /\ lsHistory' = None
  /\ histThread' = <<>>
  /\ screen' = "Index"
  /\ locState' = None
  /\ phase' = "none"
  /\ ChatReset
  /\ lateCalls' = lateCalls \cup chatCalls
  /\ chatCalls' = {}
  /\ UNCHANGED <<design, now, lsThreadId, toast, indexVars, cwVars, viVars, scVars>>

\* Mutant of handleNewChat: the history item is left in the store.
handleNewChatKeepingHistory ==
  /\ design = "pages"
  /\ screen = "Chat"
  /\ phase = "ready"
  /\ Cardinality(lateCalls \cup chatCalls) <= MaxLate
  /\ lsThreadId' = None
  /\ screen' = "Index"
  /\ locState' = None
  /\ phase' = "none"
  /\ ChatReset
  /\ lateCalls' = lateCalls \cup chatCalls
  /\ chatCalls' = {}
  /\ UNCHANGED <<design, now, lsHistory, histThread, toast, indexVars, cwVars, viVars, scVars>>

\* Chat.tsx 116-120.  navigate('/') unmounts Chat; a call it was awaiting
\* stays in flight.
handleNewChat ==
  /\ design = "pages"
  /\ screen = "Chat"
  /\ phase = "ready"
  /\ Cardinality(lateCalls \cup chatCalls) <= MaxLate
  /\ lsThreadId' = None
  /\ lsHistory' = None
  /\ histThread' = <<>>
  /\ screen' = "Index"
  /\ locState' = None
  /\ phase' = "none"
  /\ ChatReset
  /\ lateCalls' = lateCalls \cup chatCalls
  /\ chatCalls' = {}
  /\ UNCHANGED <<design, now, toast, indexVars, cwVars, viVars, scVars>>

\* Mutant of LateChatSettle: the response of a call whose Chat has been
\* unmounted is applied to the message list and saved all the same.
LateChatSettleApplied(call, ok) ==
  /\ design = "pages"
  /\ call \in lateCalls
  /\ lateCalls' = lateCalls \ {call}
  /\ toast' = IF ok THEN toast ELSE "Error"
  /\ messages' =
       IF ok THEN Append(messages, [id |-> ToString(now + 1), message |-> call.message,
                                    isUser |-> FALSE, sources |-> None])
       ELSE messages
  /\ msgThread' = IF ok THEN Append(msgThread, call.thread_id) ELSE msgThread
  /\ lsHistory' = SaveHistory(messages', lsHistory)
  /\ histThread' = SavedThreads(messages', msgThread', histThread)
  /\ UNCHANGED <<design, now, screen, locState, lsThreadId, phase, newMessage,
                 isLoading, threadId, chatCalls, indexVars, cwVars, viVars, scVars>>

\* Chat.tsx 87-113 for a call whose Chat has been unmounted: the state
\* setters of an unmounted component do nothing and its effects do not run;
\* the toast of the catch branch is still shown.
LateChatSettle(call, ok) ==
  /\ design = "pages"
  /\ call \in lateCalls
  /\ lateCalls' = lateCalls \ {call}
  /\ toast' = IF ok THEN toast ELSE "Error"
  /\ UNCHANGED <<design, now, screen, locState, lsThreadId, lsHistory, histThread, phase, messages, msgThread,
                 newMessage, isLoading, threadId, chatCalls, indexVars, cwVars, viVars, scVars>>

\* Index.tsx 103: onChange of the URL input, which is disabled while isLoading.
IndexType(u) ==
  /\ design = "pages"
  /\ screen = "Index"
  /\ ~indexIsLoading
  /\ url' = u
  /\ UNCHANGED <<design, now, browserVars, chatVars, indexIsLoading, ingestCalls,
                 cwVars, viVars, scVars>>

\* Index.tsx 20-44: handleSubmit up to the await.  The input and the submit
\* button are disabled while isLoading (105, 112), so the form cannot be
\* submitted then.
handleSubmit ==
  /\ design = "pages"
  /\ screen = "Index"
  /\ ~indexIsLoading
  /\ IF isBlank(url)
       THEN /\ toast' = "Please enter a URL"
            /\ UNCHANGED <<indexIsLoading, ingestCalls>>
       ELSE IF ~isValidYouTubeUrl(url)
         THEN /\ toast' = "Invalid YouTube URL"
              /\ UNCHANGED <<indexIsLoading, ingestCalls>>
         ELSE /\ indexIsLoading' = TRUE
              /\ ingestCalls' = ingestCalls \cup {[url |-> url]}
              /\ UNCHANGED toast
  /\ UNCHANGED <<design, now, screen, locState, lsThreadId, lsHistory, histThread, chatVars, url,
                 cwVars, viVars, scVars>>

\* Mutant of IngestResolve: the stored history is not removed.
IngestResolveKeepingHistory(call, tid) ==
  /\ design = "pages"
  /\ call \in ingestCalls
  /\ toast' = "Video analyzed successfully!"
  /\ screen' = "Chat"
  /\ locState' = Some(tid)
  /\ phase' = "rendered"
  /\ IndexReset
  /\ ingestCalls' = ingestCalls \ {call}
  /\ UNCHANGED <<design, now, lsThreadId, lsHistory, histThread, messages, msgThread, newMessage, isLoading,
                 threadId, chatCalls, lateCalls, cwVars, viVars, scVars>>

\* Index.tsx 44-59, 67-69: ingestVideo resolves with response.thread_id = tid.
\* navigate('/chat', {state}) replaces Index by Chat, whose first render
\* (Chat.tsx 122-216) is committed before its effects run.
IngestResolve(call, tid) ==
  /\ design = "pages"
  /\ call \in ingestCalls
  /\ lsHistory' = None
  /\ histThread' = <<>>
  /\ toast' = "Video analyzed successfully!"
  /\ screen' = "Chat"
  /\ locState' = Some(tid)
  /\ phase' = "rendered"
  /\ IndexReset
  /\ ingestCalls' = ingestCalls \ {call}
  /\ UNCHANGED <<design, now, lsThreadId, messages, msgThread, newMessage, isLoading, threadId,
                 chatCalls, lateCalls, cwVars, viVars, scVars>>

\* Mutant of IngestReject: the history was removed before the call was
\* awaited, so a failure loses it.
IngestRejectHistoryLost(call) ==
  /\ design = "pages"
  /\ call \in ingestCalls
  /\ lsHistory' = None
  /\ histThread' = <<>>
  /\ toast' = "Analysis failed"
  /\ indexIsLoading' = FALSE
  /\ ingestCalls' = ingestCalls \ {call}
  /\ UNCHANGED <<design, now, screen, locState, lsThreadId, chatVars, url,
                 cwVars, viVars, scVars>>

\* Index.tsx 60-69: ingestVideo rejects.
IngestReject(call) ==
  /\ design = "pages"
  /\ call \in ingestCalls
  /\ toast' = "Analysis failed"
  /\ indexIsLoading' = FALSE
  /\ ingestCalls' = ingestCalls \ {call}
  /\ UNCHANGED <<design, now, screen, locState, lsThreadId, lsHistory, histThread, chatVars, url,
                 cwVars, viVars, scVars>>

\* ------------------------------------------------------ ChatWindow component
RemoveAt(s, i) == SubSeq(s, 1, i - 1) \o SubSeq(s, i + 1, Len(s))

\* Another call may be issued: every call in flight appends one message when
\* it settles, and a new exchange appends two.
CwRoom ==
  /\ Len(cwCalls) < MaxCalls
  /\ Len(cwMessages) + Len(cwCalls) + 2 <= MaxCwMsgs

\* ChatWindow.tsx 62: onChange of the URL input (never disabled).
CwTypeUrl(u) ==
  /\ design = "ChatWindow"
  /\ cwVideoUrl' = u
  /\ UNCHANGED <<design, now, pagesVars, cwThreadId, cwMessages, cwSources, cwLoading,
                 cwInput, cwCalls, alertMsg, viVars, scVars>>

\* ChatWindow.tsx 15-18: handleIngest up to the await; the Analyze button is
\* disabled while loading (67).
CwHandleIngest ==
  /\ design = "ChatWindow"
  /\ ~cwLoading
  /\ CwRoom
  /\ cwLoading' = TRUE
  /\ cwCalls' = Append(cwCalls, [kind |-> "ingest", url |-> cwVideoUrl])
  /\ UNCHANGED <<design, now, pagesVars, cwVideoUrl, cwThreadId, cwMessages, cwSources,
                 cwInput, alertMsg, viVars, scVars>>

\* ChatWindow.tsx 18-23, 26-28: the ingest call resolves.
CwIngestResolve(i, tid) ==
  /\ design = "ChatWindow"
  /\ i \in DOMAIN cwCalls
  /\ cwCalls[i].kind = "ingest"
  /\ cwThreadId' = Some(tid)
  /\ cwMessages' = Append(cwMessages, [role |-> "bot", message |-> <<"Video ingested successfully!">>])
  /\ cwLoading' = FALSE
  /\ cwCalls' = RemoveAt(cwCalls, i)
  /\ UNCHANGED <<design, now, pagesVars, cwVideoUrl, cwSources, cwInput, alertMsg, viVars, scVars>>

\* ChatWindow.tsx 24-28: the ingest call rejects.
CwIngestReject(i) ==
  /\ design = "ChatWindow"
  /\ i \in DOMAIN cwCalls
  /\ cwCalls[i].kind = "ingest"
  /\ alertMsg' = "Failed to ingest video"
  /\ cwLoading' = FALSE
  /\ cwCalls' = RemoveAt(cwCalls, i)
  /\ UNCHANGED <<design, now, pagesVars, cwVideoUrl, cwThreadId, cwMessages, cwSources,
                 cwInput, viVars, scVars>>

\* The user edits the message input (ChatWindow.tsx 83-93; never disabled).
CwTypeInput(text) ==
  /\ design = "ChatWindow"
  /\ cwInput' = text
  /\ UNCHANGED <<design, now, pagesVars, cwVideoUrl, cwThreadId, cwMessages, cwSources,
                 cwLoading, cwCalls, alertMsg, viVars, scVars>>

\* Mutant of handleSend: the check of threadId (ChatWindow.tsx 32-35) is
\* left out.
handleSendUnchecked(msg) ==
  /\ cwMessages' = Append(cwMessages, [role |-> "user", message |-> msg])
  /\ cwLoading' = TRUE
  /\ cwCalls' = Append(cwCalls, [kind |-> "chat",
                                  thread_id |-> IF Truthy(cwThreadId)
                                                  THEN The(cwThreadId) ELSE "",
                                  message |-> msg])
  /\ UNCHANGED alertMsg

\* ChatWindow.tsx 31-40: handleSend(msg) up to the await.
handleSend(msg) ==
  IF ~Truthy(cwThreadId)
    THEN /\ alertMsg' = "Please ingest a video first."
         /\ UNCHANGED <<cwMessages, cwLoading, cwCalls>>
    ELSE /\ cwMessages' = Append(cwMessages, [role |-> "user", message |-> msg])
         /\ cwLoading' = TRUE
         /\ cwCalls' = Append(cwCalls, [kind |-> "chat", thread_id |-> The(cwThreadId),
                                         message |-> msg])
         /\ UNCHANGED alertMsg

\* ChatWindow.tsx 87-92 (Enter in the input) and 96-104 (the Send button):
\* both read the input element, call handleSend with its trimmed value when
\* that is not empty, and clear the element.
CwSubmitInput ==
  IF ~isBlank(cwInput)
    THEN /\ handleSend(Trim(cwInput))
         /\ cwInput' = <<>>
    ELSE UNCHANGED <<cwMessages, cwLoading, cwCalls, alertMsg, cwInput>>

\* ChatWindow.tsx 87-92: onKeyDown with Enter.  The input is not disabled
\* while loading.
CwEnterKey ==
  /\ design = "ChatWindow"
  /\ CwRoom
  /\ CwSubmitInput
  /\ UNCHANGED <<design, now, pagesVars, cwVideoUrl, cwThreadId, cwSources, viVars, scVars>>

\* ChatWindow.tsx 94-108: onClick of Send, which is disabled while loading.
CwClickSend ==
  /\ design = "ChatWindow"
  /\ ~cwLoading
  /\ CwRoom
  /\ CwSubmitInput
  /\ UNCHANGED <<design, now, pagesVars, cwVideoUrl, cwThreadId, cwSources, viVars, scVars>>

\* ChatWindow.tsx 40-42, 48-50: the chat call resolves.
CwChatResolve(i, response) ==
  /\ design = "ChatWindow"
  /\ i \in DOMAIN cwCalls
  /\ cwCalls[i].kind = "chat"
  /\ cwMessages' = Append(cwMessages, [role |-> "bot", message |-> response.message])
  /\ cwSources' = IF response.sources # None THEN The(response.sources) ELSE <<>>
  /\ cwLoading' = FALSE
  /\ cwCalls' = RemoveAt(cwCalls, i)
  /\ UNCHANGED <<design, now, pagesVars, cwVideoUrl, cwThreadId, cwInput, alertMsg, viVars, scVars>>

\* ChatWindow.tsx 43-50: the chat call rejects.
CwChatReject(i) ==
  /\ design = "ChatWindow"
  /\ i \in DOMAIN cwCalls
  /\ cwCalls[i].kind = "chat"
  /\ cwMessages' = Append(cwMessages, [role |-> "bot", message |-> <<"Error: Chat failed">>])
  /\ cwLoading' = FALSE
  /\ cwCalls' = RemoveAt(cwCalls, i)
  /\ UNCHANGED <<design, now, pagesVars, cwVideoUrl, cwThreadId, cwSources, cwInput,
                 alertMsg, viVars, scVars>>

\* ------------------------------------------------------ VideoInput component
\* ChatWindow.tsx 215: onChange of the URL input.
ViType(u) ==
  /\ design = "VideoInput"
  /\ viUrl' = u
  /\ UNCHANGED <<design, now, pagesVars, cwVars, scVars, viLoading, viError, viCalls, viIngested>>

\* ChatWindow.tsx 196-200: handleIngest up to the await; the button is
\* disabled while loading (220).
ViHandleIngest ==
  /\ design = "VideoInput"
  /\ ~viLoading
  /\ viLoading' = TRUE
  /\ viError' = None
  /\ viCalls' = viCalls \cup {[url |-> viUrl]}
  /\ UNCHANGED <<design, now, pagesVars, cwVars, scVars, viUrl, viIngested>>

\* ChatWindow.tsx 200-201, 204-206: the call resolves.
ViResolve(call, tid) ==
  /\ design = "VideoInput"
  /\ call \in viCalls
  /\ viIngested' = Some(tid)
  /\ viLoading' = FALSE
  /\ viCalls' = viCalls \ {call}
  /\ UNCHANGED <<design, now, pagesVars, cwVars, scVars, viUrl, viError>>

\* ChatWindow.tsx 202-206: the call rejects.
ViReject(call) ==
  /\ design = "VideoInput"
  /\ call \in viCalls
  /\ viError' = Some("Failed to ingest video")
  /\ viLoading' = FALSE
  /\ viCalls' = viCalls \ {call}
  /\ UNCHANGED <<design, now, pagesVars, cwVars, scVars, viUrl, viIngested>>

\* ------------------------------------------------- ChatWindow.tsx SourceCard
\* ChatWindow.tsx 140-181: a SourceCard is rendered for a source; line 164
\* shows formatTimestamp(source.timestamp).  The card is rendered once: what
\* another source would show is what another card shows.
SourceCard ==
  /\ design = "SourceCard"
  /\ scTimestamp = None
  /\ \E timestamp \in TimestampInputs :
       /\ scTimestamp' = Some(timestamp)
       /\ scLabel' = Some(formatTimestamp(timestamp))
  /\ UNCHANGED <<design, now, pagesVars, cwVars, viVars>>

\* ------------------------------------------------------------ specification
ChatResponses == [message : Answers, sources : SourceOptions]

Next ==
  \/ Tick
  \/ \E r \in {"Index", "Chat"}, reload \in BOOLEAN : PageLoad(r, reload)
  \/ ChatMountEffect
  \/ \E text \in ChatInputs : ChatType(text)
  \/ handleSendMessage
  \/ \E call \in chatCalls, response \in ChatResponses : ChatResolve(call, response)
  \/ \E call \in chatCalls : ChatReject(call)
  \/ handleNewChat
  \/ \E call \in lateCalls, ok \in BOOLEAN : LateChatSettle(call, ok)
  \/ \E u \in UrlInputs : IndexType(u)
  \/ handleSubmit
  \/ \E call \in ingestCalls, tid \in ThreadIds : IngestResolve(call, tid)
  \/ \E call \in ingestCalls : IngestReject(call)
  \/ \E u \in PlainUrlInputs : CwTypeUrl(u)
  \/ CwHandleIngest
  \/ \E i \in DOMAIN cwCalls, tid \in ThreadIds : CwIngestResolve(i, tid)
  \/ \E i \in DOMAIN cwCalls : CwIngestReject(i)
  \/ \E text \in ChatInputs : CwTypeInput(text)
  \/ CwEnterKey
  \/ CwClickSend
  \/ \E i \in DOMAIN cwCalls, response \in ChatResponses : CwChatResolve(i, response)
  \/ \E i \in DOMAIN cwCalls : CwChatReject(i)
  \/ \E u \in PlainUrlInputs : ViType(u)
  \/ ViHandleIngest
  \/ \E call \in viCalls, tid \in ThreadIds : ViResolve(call, tid)
  \/ \E call \in viCalls : ViReject(call)
  \/ SourceCard

Spec == Init /\ [][Next]_vars

\* Chat.tsx 87-113: the promise of sendChatMessage that a mounted Chat awaits
\* settles, by a response or by an error.
ChatSettle ==
  \E call \in chatCalls :
    \/ ChatReject(call)
    \/ \E response \in ChatResponses : ChatResolve(call, response)

\* Index.tsx 41-69: the promise of ingestVideo that Index awaits settles.
IngestSettle ==
  \E call \in ingestCalls :
    \/ IngestReject(call)
    \/ \E tid \in ThreadIds : IngestResolve(call, tid)

\* The program with a backend that answers: a promise that is awaited does
\* not stay pending for ever.
SpecLive == Init /\ [][Next]_vars /\ WF_vars(ChatSettle) /\ WF_vars(IngestSettle)

\* =================================================================== claims
Front(s) == SubSeq(s, 1, Len(s) - 1)

\* What a reload of the chat screen would show for the stored history h.
Reloaded(h) == loadHistory(h, <<>>)

\* The chat calls a ChatWindow has in flight.
CwChatCalls == {i \in DOMAIN cwCalls : cwCalls[i].kind = "chat"}

\* ----------------------------------------------------------------------- C1
\* C1: a chat call that fails leaves the message list exactly as it was
\* before the submission (the list without the optimistic user message, which
\* is its last element while the call is the only one in flight; no assistant
\* or error message added) and the controller Idle.  Stated for both chat
\* controllers, Chat (handleSendMessage) and ChatWindow (handleSend).
C1_FailedChatRestoresList ==
  [][ /\ \A call \in chatCalls :
           ChatReject(call) => messages' = Front(messages) /\ ~isLoading'
      /\ \A i \in DOMAIN cwCalls :
           CwChatReject(i) /\ Len(cwCalls) = 1
             => cwMessages' = Front(cwMessages) /\ ~cwLoading' ]_vars

\* C1, Chat alone: what handleSendMessage's rollback by id does.
C1_ChatRollbackRestoresList ==
  [][ \A call \in chatCalls :
        ChatReject(call) => messages' = Front(messages) /\ ~isLoading' ]_vars

\* ----------------------------------------------------------------------- C2
\* C2: after a failed chat exchange the persisted history is what it was
\* before the submission, whatever the prior history, the empty one
\* included: a reload of the chat screen after the failure shows the list as
\* it was before the submission, without the failed user message.
C2_FailedChatRestoresStore ==
  [][ \A call \in chatCalls :
        ChatReject(call) => Reloaded(lsHistory') = Front(messages) ]_vars

\* ----------------------------------------------------------------------- C3
\* C3: at most one chat request is outstanding at any time (none when Idle,
\* one when Sending), and a submission made while Sending issues no request
\* and changes neither the message list nor the input.
C3_OneChatRequest ==
  /\ [](/\ Cardinality(chatCalls) = (IF isLoading THEN 1 ELSE 0)
        /\ Cardinality(CwChatCalls) <= 1)
  /\ [][ /\ handleSendMessage /\ isLoading
             => UNCHANGED <<chatCalls, messages, newMessage>>
         /\ (CwEnterKey \/ CwClickSend) /\ CwChatCalls # {}
             => UNCHANGED <<cwCalls, cwMessages, cwInput>> ]_vars

\* ----------------------------------------------------------------------- C4
\* The toast of a successful ingest (Index.tsx 49-52); it is the last toast
\* shown exactly while the chat screen it navigated to is being entered.
SuccessToast == "Video analyzed successfully!"

\* C4: a successful ingest removes the stored history before the new thread
\* id is stored (the id is stored by the chat screen's mount effect that
\* follows), and the chat screen entered with the new id loads the empty
\* history: its list is empty and nothing is stored as history.
C4_IngestClearsHistory ==
  [][ /\ \A call \in ingestCalls, tid \in ThreadIds :
           IngestResolve(call, tid)
             => lsHistory' = None /\ lsThreadId' = lsThreadId /\ locState' = Some(tid)
      /\ ChatMountEffect /\ toast = SuccessToast
           => /\ messages' = <<>>
              /\ lsHistory' = None
              /\ threadId' = locState
              /\ lsThreadId' = locState ]_vars

\* An ingest has succeeded while an earlier thread's id was stored: the
\* history is gone, the chat screen is being entered with the new id, and the
\* new id is not stored yet.
C4_Witness ==
  /\ toast = SuccessToast
  /\ screen = "Chat"
  /\ phase = "rendered"
  /\ locState = Some("t2")
  /\ lsThreadId = Some("t1")
  /\ lsHistory = None

\* ----------------------------------------------------------------------- C5
\* C5: when the chat screen is entered with no navigation-supplied thread id
\* and no stored thread id, the chat view is never rendered: there is no
\* state in which the chat view is shown with the thread unresolved.
C5_NoChatViewWithoutThread ==
  ~(/\ design = "pages"
    /\ screen = "Chat"
    /\ ~Truthy(locState)
    /\ ~Truthy(lsThreadId)
    /\ ~Truthy(threadId))

\* ----------------------------------------------------------------------- C6
\* C6: thread resolution on entry of the chat screen: a supplied id becomes
\* the current thread and is stored; with none supplied the stored id becomes
\* the current thread and the store is unchanged; with neither the result is
\* NotFound (no current thread, back to the landing screen) and nothing is
\* stored.
C6_ThreadPrecedence ==
  [][ ChatMountEffect =>
        IF Truthy(locState)
          THEN threadId' = locState /\ lsThreadId' = locState /\ screen' = "Chat"
        ELSE IF Truthy(lsThreadId)
          THEN threadId' = lsThreadId /\ lsThreadId' = lsThreadId /\ screen' = "Chat"
        ELSE /\ threadId' = None
             /\ screen' = "Index"
             /\ UNCHANGED <<lsThreadId, lsHistory>> ]_vars

\* The chat screen has been entered without a supplied id and runs on the
\* stored one.
C6_Witness ==
  /\ screen = "Chat"
  /\ phase = "ready"
  /\ locState = None
  /\ Truthy(lsThreadId)
  /\ threadId = lsThreadId

\* ----------------------------------------------------------------------- C7
\* C7: submitting an empty or whitespace-only chat message, in any state,
\* issues no chat call and leaves the message list, the Idle/Sending state
\* and the stored history unchanged (Chat and ChatWindow).
C7_BlankSubmitIsNoOp ==
  [][ /\ handleSendMessage /\ Trim(newMessage) = <<>>
           => UNCHANGED <<chatCalls, lateCalls, messages, isLoading, lsHistory>>
      /\ (CwEnterKey \/ CwClickSend) /\ Trim(cwInput) = <<>>
           => UNCHANGED <<cwCalls, cwMessages, cwLoading>> ]_vars

\* A whitespace-only text is in the input of an Idle chat screen with a
\* resolved thread: the submission that the guard alone stops.
C7_Witness ==
  /\ screen = "Chat"
  /\ phase = "ready"
  /\ Truthy(threadId)
  /\ ~isLoading
  /\ newMessage # <<>>
  /\ Trim(newMessage) = <<>>
  /\ messages # <<>>

\* ----------------------------------------------------------------------- C8
\* A URL that is not empty and matches the YouTube URL pattern.
AcceptableUrl(u) == Trim(u) # <<>> /\ isValidYouTubeUrl(u)

\* C8: no ingest request is ever issued for a URL that is empty or does not
\* match the YouTube URL pattern (Index, ChatWindow and VideoInput): every
\* ingest call in flight carries a URL that passed the validation.
C8_IngestOnlyValidUrl ==
  /\ \A call \in ingestCalls : AcceptableUrl(call.url)
  /\ \A i \in DOMAIN cwCalls : cwCalls[i].kind = "ingest" => AcceptableUrl(cwCalls[i].url)
  /\ \A call \in viCalls : AcceptableUrl(call.url)

\* ----------------------------------------------------------------------- C9
\* C9: a failed ingest commits nothing: the stored thread id and the stored
\* history are unchanged, there is no navigation to the chat screen, and the
\* user stays on the landing screen with the failure notification.
C9_FailedIngestCommitsNothing ==
  [][ \A call \in ingestCalls :
        IngestReject(call)
          => /\ UNCHANGED <<lsThreadId, lsHistory, locState, threadId>>
             /\ screen' = "Index"
             /\ phase' = "none"
             /\ toast' = "Analysis failed"
             /\ ~indexIsLoading' ]_vars

\* An ingest has failed while a thread and its history were stored.
C9_Witness ==
  /\ screen = "Index"
  /\ toast = "Analysis failed"
  /\ ~indexIsLoading
  /\ ingestCalls = {}
  /\ Truthy(lsThreadId)
  /\ lsHistory # None
  /\ Reloaded(lsHistory) # <<>>

\* ---------------------------------------------------------------------- C10
\* A list that consists of (user, assistant) pairs only.
Paired(msgs) ==
  /\ Len(msgs) % 2 = 0
  /\ \A i \in DOMAIN msgs : msgs[i].isUser <=> (i % 2 = 1)

\* C10: once an exchange has completed, by success or by failure, every user
\* message left in the log is followed by its assistant reply: the list in
\* memory and the history a reload would show are (user, assistant) pairs.
C10_NoOrphanUserMessage ==
  [][ \A call \in chatCalls :
        (ChatReject(call) \/ \E response \in ChatResponses : ChatResolve(call, response))
          => Paired(messages') /\ Paired(Reloaded(lsHistory')) ]_vars

\* ---------------------------------------------------------------------- C11
\* Every message of the stored history was exchanged under the stored
\* thread id.
StoredHistoryOfStoredThread ==
  \A i \in DOMAIN histThread : lsThreadId = Some(histThread[i])

ChatControllerStep ==
  \/ handleSendMessage
  \/ \E call \in chatCalls :
       \/ ChatReject(call)
       \/ \E response \in ChatResponses : ChatResolve(call, response)

\* C12: the history is persisted after every step that changes the message
\* list, and never while the controller is Sending: a step that ends in
\* Sending (the optimistic append) writes nothing to the stored history, and
\* a step that changes the list and ends in Idle leaves the list it produced
\* in the store.
C12_PersistedOnlyWhenIdle ==
  [][ ChatControllerStep
        => /\ isLoading' => lsHistory' = lsHistory
           /\ (messages' # messages /\ ~isLoading')
                => lsHistory' = Some(Stringify(messages')) ]_vars

\* C12, first half alone: nothing is written while Sending.
C12_NoWriteWhileSending ==
  [][ ChatControllerStep /\ isLoading' => lsHistory' = lsHistory ]_vars

\* C12, second half alone: every change of the list reaches the store.
C12_EveryChangePersisted ==
  [][ ChatControllerStep /\ messages' # messages
        => lsHistory' = Some(Stringify(messages')) ]_vars

\* ---------------------------------------------------------------------- C13
\* C13: the message list is append-only: a step of the chat controller
\* leaves the list unchanged, appends exactly one message at its end, or (the
\* failure of a call) deletes exactly one message, the optimistic user
\* message of the call that failed; nothing else is removed, reordered or
\* modified.
C13_AppendOnly ==
  [][ ChatControllerStep
        => \/ messages' = messages
           \/ Len(messages') = Len(messages) + 1 /\ Front(messages') = messages
           \/ \E call \in chatCalls, i \in DOMAIN messages :
                /\ ChatReject(call)
                /\ messages[i].isUser
                /\ messages[i].id = call.userMessageId
                /\ messages' = RemoveAt(messages, i) ]_vars

\* ---------------------------------------------------------------------- C14
\* C14: round trip: a non-empty message list that has been persisted and is
\* then loaded on entry of the chat screen is the same ordered sequence, with
\* the same ids, texts, user flags and sources.  Whenever the chat screen
\* shows a non-empty list, the store holds it and a load of the store gives
\* it back; and the mount effect, having loaded a stored history, holds a
\* list whose persisted form is the stored text.
C14_RoundTrip ==
  /\ [](design = "pages" /\ messages # <<>>
          => /\ lsHistory = Some(Stringify(messages))
             /\ Reloaded(lsHistory) = messages)
  /\ [][ ChatMountEffect /\ lsHistory # None /\ ~ParseThrows(The(lsHistory))
           /\ resolveThread(locState, lsThreadId) # None
             => /\ Stringify(messages') = The(lsHistory)
                /\ lsHistory' = lsHistory ]_vars

\* A chat screen entered by its address (no thread handed over by the
\* ingest) shows the stored list, in which there are a message without
\* sources and a message with sources.
C14_Witness ==
  /\ design = "pages"
  /\ phase = "ready"
  /\ locState = None
  /\ ~isLoading
  /\ messages = Reloaded(lsHistory)
  /\ \E i, j \in DOMAIN messages :
       messages[i].sources = None /\ messages[j].sources # None

\* ---------------------------------------------------------------------- C15
\* The pieces of a text between its colons.
RECURSIVE SplitAtColons(_)
SplitAtColons(s) ==
  IF \A i \in DOMAIN s : s[i] # ":" THEN <<s>>
  ELSE LET k == CHOOSE i \in DOMAIN s : s[i] = ":" /\ \A j \in 1..(i - 1) : s[j] # ":"
       IN <<SubSeq(s, 1, k - 1)>> \o SplitAtColons(Drop(s, k))

\* The number a text of decimal digits denotes; -1 for any other text.
RECURSIVE DecimalValue(_)
DecimalValue(s) ==
  IF s = <<>> \/ \E i \in DOMAIN s : s[i] \notin Digits THEN -1
  ELSE LET last == CHOOSE d \in 0..9 : Digit(d) = s[Len(s)]
       IN IF Len(s) = 1 THEN last ELSE 10 * DecimalValue(Front(s)) + last

\* A number written without padding, and one written as exactly two digits.
Unpadded(s, n) == DecimalValue(s) = n /\ (Len(s) = 1 \/ Head(s) # "0")
TwoDigits(s, n) == DecimalValue(s) = n /\ Len(s) = 2

\* C15: for a whole number of seconds >= 0, formatTimestamp gives "M:SS"
\* (minutes unpadded, seconds as two digits) below 3600 and "H:MM:SS" (hours
\* unpadded, minutes and seconds as two digits) from 3600 on, with
\* H = seconds div 3600, M = (seconds mod 3600) div 60, S = seconds mod 60.
C15_TimestampFormat ==
  scTimestamp # None
    => LET seconds == The(scTimestamp)
           parts == SplitAtColons(The(scLabel))
           H == seconds \div 3600
           M == (seconds % 3600) \div 60
           S == seconds % 60
       IN IF seconds < 3600
            THEN /\ Len(parts) = 2
                 /\ Unpadded(parts[1], M)
                 /\ TwoDigits(parts[2], S)
            ELSE /\ Len(parts) = 3
                 /\ Unpadded(parts[1], H)
                 /\ TwoDigits(parts[2], M)
                 /\ TwoDigits(parts[3], S)

\* The two examples: 3725 is shown as "1:02:05" (and 125 as "2:05").
C15_Witness ==
  /\ scTimestamp = Some(3725)
  /\ scLabel = Some(<<"1", ":", "0", "2", ":", "0", "5">>)
  /\ formatTimestamp(125) = <<"2", ":", "0", "5">>

\* ---------------------------------------------------------------------- C16
\* The user message of the exchange that call belongs to.
UserMessageOf(call) ==
  [id |-> call.userMessageId, message |-> call.message, isUser |-> TRUE,
   sources |-> None]

\* C16: a chat call that succeeds, submitted from list L with text t, leaves
\* exactly L, the user message for t, and one assistant message that carries
\* the returned answer text and the returned sources, the empty sequence when
\* the response has none; and the controller is Idle.
C16_SuccessAppendsAnswer ==
  [][ \A call \in chatCalls, response \in ChatResponses :
        ChatResolve(call, response)
          => /\ messages # <<>>
             /\ messages[Len(messages)] = UserMessageOf(call)
             /\ Len(messages') = Len(messages) + 1
             /\ Front(messages') = messages
             /\ LET assistant == messages'[Len(messages')]
                IN /\ ~assistant.isUser
                   /\ assistant.message = response.message
                   /\ assistant.sources =
                        Some(IF response.sources = None THEN <<>>
                             ELSE The(response.sources))
             /\ ~isLoading' ]_vars

\* C16 without the default: the assistant message carries the sources as
\* the response has them, none when it has none.
C16_SuccessAppendsAnswerAsReturned ==
  [][ \A call \in chatCalls, response \in ChatResponses :
        ChatResolve(call, response)
          => /\ messages # <<>>
             /\ messages[Len(messages)] = UserMessageOf(call)
             /\ Len(messages') = Len(messages) + 1
             /\ Front(messages') = messages
             /\ LET assistant == messages'[Len(messages')]
                IN /\ ~assistant.isUser
                   /\ assistant.message = response.message
                   /\ assistant.sources = response.sources
             /\ ~isLoading' ]_vars

\* ---------------------------------------------------------------------- C17
\* C17: every request releases the controller: with a backend call that
\* settles, a chat controller that is Sending returns to Idle, and an ingest
\* screen that is loading stops loading, whether the call succeeds or fails.
C17_RequestReleasesController ==
  /\ (design = "pages" /\ isLoading) ~> ~isLoading
  /\ (design = "pages" /\ indexIsLoading) ~> ~indexIsLoading

\* The chat screen after a call that failed: Idle, with the error toast.
C17_Witness ==
  /\ design = "pages"
  /\ screen = "Chat"
  /\ phase = "ready"
  /\ toast = "Error"
  /\ ~isLoading
  /\ chatCalls = {}
  /\ lateCalls = {}
  /\ messages # <<>>

\* ---------------------------------------------------------------------- C18
\* C18: a chat response or failure that arrives after the chat screen was
\* left is ignored: handling it changes neither the stored thread id nor the
\* stored history nor any message list, and a chat screen only ever lists
\* messages that were exchanged under the thread it runs on.
C18_LateResponseIgnored ==
  /\ [](design = "pages" /\ phase = "ready"
          => \A i \in DOMAIN msgThread : threadId = Some(msgThread[i]))
  /\ [][ \A call \in lateCalls, ok \in BOOLEAN :
           LateChatSettle(call, ok)
             => UNCHANGED <<lsThreadId, lsHistory, messages>> ]_vars

\* A chat screen entered for another thread after a new chat, once the
\* failure of the first thread's call has arrived (its toast is shown): the
\* list and the store have nothing of it.
C18_Witness ==
  /\ design = "pages"
  /\ screen = "Chat"
  /\ phase = "ready"
  /\ threadId = Some("t2")
  /\ toast = "Error"
  /\ lateCalls = {}
  /\ messages = <<>>
  /\ lsHistory = None

\* ---------------------------------------------------------------------- C19
\* C19: starting a new chat, from Idle or from Sending, removes the stored
\* thread id and the stored history and shows the landing screen: right
\* after it neither item is in the store.
C19_NewChatClearsStore ==
  [][ handleNewChat
        => /\ lsThreadId' = None
           /\ lsHistory' = None
           /\ screen' = "Index" ]_vars

\* A new chat was started while a call was in flight: the landing screen,
\* an empty store, and the call still pending.
C19_Witness ==
  /\ design = "pages"
  /\ screen = "Index"
  /\ lsThreadId = None
  /\ lsHistory = None
  /\ lateCalls # {}

\* ---------------------------------------------------------------------- C20
\* C20: a non-empty chat message submitted while no thread id is resolved is
\* rejected on the spot with a notification the user sees, no chat request
\* is issued and the message list is unchanged.  ChatWindow takes
\* submissions before any thread exists and answers them with an alert; the
\* Chat page takes submissions only once its mount effect has resolved a
\* thread, so there the case does not arise.
C20_NoThreadRejectedLocally ==
  /\ [](design = "pages" /\ phase = "ready" => Truthy(threadId))
  /\ [][ (CwEnterKey \/ CwClickSend) /\ ~isBlank(cwInput) /\ ~Truthy(cwThreadId)
           => /\ alertMsg' = "Please ingest a video first."
              /\ UNCHANGED <<cwCalls, cwMessages, cwLoading>> ]_vars

\* ChatWindow without a thread, after a submission: the alert was shown,
\* nothing was sent and nothing was listed.
C20_Witness ==
  /\ design = "ChatWindow"
  /\ cwThreadId = None
  /\ alertMsg = "Please ingest a video first."
  /\ cwCalls = <<>>
  /\ cwMessages = <<>>

\* ---------------------------------------------------------------------- C21
\* The store holds a history that JSON.parse rejects.
HistoryUnparsable == lsHistory # None /\ ParseThrows(The(lsHistory))

\* C21: when the stored history cannot be parsed on entry of the chat
\* screen, the load gives the empty history and raises nothing: the thread is
\* resolved as it would be otherwise, the list is empty, the controller is
\* Idle and no error is shown; and the submission that follows goes on as in
\* an empty conversation: the list is the one user message, a call is
\* issued, and the store holds that list.
C21_UnparsableHistoryLoadsEmpty ==
  [][ /\ (ChatMountEffect /\ HistoryUnparsable
            /\ resolveThread(locState, lsThreadId) # None)
          => /\ threadId' = resolveThread(locState, lsThreadId)
             /\ messages' = <<>>
             /\ ~isLoading'
             /\ screen' = "Chat" /\ phase' = "ready"
             /\ toast' = toast
             /\ chatCalls' = {}
      /\ (handleSendMessage /\ HistoryUnparsable /\ ~isBlank(newMessage) /\ ~isLoading)
          => /\ messages' = <<[id |-> ToString(now), message |-> Trim(newMessage),
                               isUser |-> TRUE, sources |-> None]>>
             /\ Cardinality(chatCalls') = 1
             /\ isLoading'
             /\ lsHistory' = Some(Stringify(messages')) ]_vars

\* The chat screen, mounted over a history that is not JSON: a thread, an
\* empty list, Idle, the bad text still in the store.
C21_Witness ==
  /\ design = "pages"
  /\ screen = "Chat"
  /\ phase = "ready"
  /\ HistoryUnparsable
  /\ threadId # None
  /\ messages = <<>>
  /\ ~isLoading

\* ---------------------------------------------------------------------- C22
\* C22: in every reachable state the ids of the messages of the list are
\* pairwise distinct, so that the rollback by id removes one message only.
C22_DistinctIds ==
  \A i, j \in DOMAIN messages : i # j => messages[i].id # messages[j].id

\* C22, its consequence alone: a rollback removes exactly one message.
C22_RollbackRemovesOne ==
  [][ \A call \in chatCalls :
        ChatReject(call) => Len(messages') = Len(messages) - 1 ]_vars

\* ---------------------------------------------------------------------- C23
\* C23: within one tab, every chat request the chat screen issues carries the
\* thread id that the store holds when the request is sent: none is sent with
\* another id, none once the stored id has been removed; and while the chat
\* screen awaits a call, the store still holds that call's thread id.
C23_RequestCarriesStoredThread ==
  /\ [](\A call \in chatCalls : lsThreadId = Some(call.thread_id))
  /\ [][ handleSendMessage
           => \A call \in chatCalls' \ chatCalls :
                lsThreadId = Some(call.thread_id) ]_vars

\* A request of the second thread is in flight and carries the stored id,
\* while a request of the first thread, left behind by a new chat, is still
\* pending.
C23_Witness ==
  /\ design = "pages"
  /\ lsThreadId = Some("t2")
  /\ \E call \in chatCalls : call.thread_id = "t2"
  /\ \E call \in lateCalls : call.thread_id = "t1"

====
